---------------------------- MODULE Spec2Model ----------------------------
(***************************************************************************)
(* EasyRAG (Easy_RAG_System_Colab.ipynb): an in-memory knowledge base made *)
(* of a FAISS IndexFlatL2 and a parallel Python list of document texts,    *)
(* with add_documents, search and answer_question, and the two Gradio      *)
(* handlers chat_interface and add_custom_documents that share the global  *)
(* instance rag.                                                           *)
(*                                                                         *)
(* Strings are sequences of one-character strings.  A numpy array of       *)
(* embeddings is a record [shape, rows]: shape is the array's shape tuple  *)
(* and rows holds, for each vector, its leading coordinates (all further   *)
(* coordinates of the vectors used here are 0, so they add nothing to an   *)
(* L2 distance).  Identifiers are 0-based as in FAISS; sequences are       *)
(* 1-based, so identifier i lives at position i + 1.                       *)
(*                                                                         *)
(* Embeddings, distances and similarities are float32 values.  A           *)
(* coordinate is an integer count of 2^-13, a distance an integer count of *)
(* 2^-26 that has at most 24 significant bits, and a similarity a record   *)
(* [m, e] standing for m * 2^e with 2^23 <= m < 2^24.                      *)
(***************************************************************************)
EXTENDS Integers, Sequences, FiniteSets

\* ------------------------------------------------------------------ bounds
\* The knowledge base holds at most MaxDocs documents.
MaxDocs == 3
\* One add_documents call inserts at most MaxBatch texts.
MaxBatch == 2
\* search is called with top_k in 0..MaxK.
MaxK == 4

\* ------------------------------------------------------- program constants
\* self.embedding_dim = 384
embedding_dim == 384
\* def search(self, query, top_k: int = 3); answer_question passes top_k=3
ANSWER_TOP_K == 3
\* relevant_docs[1]['text'][:200]
TRUNCATE_AT == 200
\* astype('float32'): a float32 carries 24 significant bits.
FLOAT32_BITS == 24

\* ------------------------------------------------------------ string values
FallbackAnswer ==
    <<"I"," ","d","o","n","'","t"," ","h","a","v","e"," ","i","n","f","o","r",
      "m","a","t","i","o","n"," ","t","o"," ","a","n","s","w","e","r"," ","t",
      "h","i","s"," ","q","u","e","s","t","i","o","n",".">>

PrimaryLeadIn ==
    <<"B","a","s","e","d"," ","o","n"," ","t","h","e"," ","a","v","a","i","l",
      "a","b","l","e"," ","i","n","f","o","r","m","a","t","i","o","n",":",
      "\n","\n">>

SecondaryLeadIn ==
    <<"\n","\n","A","d","d","i","t","i","o","n","a","l"," ","r","e","l","e",
      "v","a","n","t"," ","i","n","f","o","r","m","a","t","i","o","n",":","\n">>

EllipsisMarker ==
    <<".",".",".">>

EnterQuestionMsg ==
    <<"P","l","e","a","s","e"," ","e","n","t","e","r"," ","a"," ","q","u","e",
      "s","t","i","o","n","!">>

\* --------------------------------------------------------- inputs (texts)
Digits == <<"0","1","2","3","4","5","6","7","8","9">>
Letters == <<"a","b","c","d","e","f","g">>

\* A document shorter than the truncation length.
DocShort == <<"R","A","G">>
\* A document of exactly TRUNCATE_AT characters.
DocExact == [i \in 1..TRUNCATE_AT |-> Digits[(i % Len(Digits)) + 1]]
\* A document one character longer than the truncation length.
DocLong == [i \in 1..(TRUNCATE_AT + 1) |-> Letters[(i % Len(Letters)) + 1]]

Texts == {DocShort, DocExact, DocLong}

\* A question that is no document, and a blank question.
QuestionWhat == <<"W","h","a","t","?">>
QuestionBlank == <<" "," ">>
\* A question whose embedding lies very close to that of DocShort.
QuestionNear == <<"r","a","g">>

\* Questions passed to search and answer_question.
Questions == {DocShort, QuestionWhat, QuestionNear}

Min(a, b) == IF a <= b THEN a ELSE b

RECURSIVE SeqsUpTo(_, _)
\* All sequences over S of length 0..n.
SeqsUpTo(S, n) ==
    IF n = 0 THEN {<<>>}
    ELSE LET shorter == SeqsUpTo(S, n - 1) IN
         shorter \cup {Append(s, x) : s \in {t \in shorter : Len(t) = n - 1}, x \in S}

Batches == SeqsUpTo(Texts, MaxBatch)

\* ------------------------------------------------------------------ float32
\* The coordinate 1.0, in units of 2^-13.
One == 2 ^ 13
\* The distance 1.0, in units of 2^-26.
OneSquared == One * One

RECURSIVE BitLen(_)
\* The number of bits of n >= 0.
BitLen(n) == IF n = 0 THEN 0 ELSE 1 + BitLen(n \div 2)

\* n >= 0 rounded to a multiple of p, to nearest and on a tie to even.
RoundAt(n, p) ==
    IF 2 * (n % p) > p \/ (2 * (n % p) = p /\ (n \div p) % 2 = 1)
    THEN (n \div p + 1) * p
    ELSE (n \div p) * p

\* n >= 0 of the given number of bits, rounded to FLOAT32_BITS significant
\* bits.
RoundTo(n, bits) ==
    IF bits <= FLOAT32_BITS THEN n ELSE RoundAt(n, 2 ^ (bits - FLOAT32_BITS))

\* n >= 0 rounded to FLOAT32_BITS significant bits, to nearest and on a tie
\* to even: what storing an exact result in a float32 does.
Fl(n) == RoundTo(n, BitLen(n))

\* The number of fraction bits of a distance: 26.
DistanceBits == BitLen(OneSquared) - 1

\* The significand of the float32 1.0 (and of every power of two).
Top == 2 ^ (FLOAT32_BITS - 1)

RECURSIVE LongDivision(_, _, _, _)
\* n more bits of the quotient q of a division by m, r being the remainder
\* so far: [q, r] in the end.
LongDivision(q, r, m, n) ==
    IF n = 0 THEN [q |-> q, r |-> r]
    ELSE IF 2 * r >= m THEN LongDivision(2 * q + 1, 2 * r - m, m, n - 1)
         ELSE LongDivision(2 * q, 2 * r, m, n - 1)

\* The quotient d.q of a division by xm with remainder d.r, rounded to
\* nearest and on a tie to even.
RoundedQuotient(d, xm) ==
    IF 2 * d.r > xm \/ (2 * d.r = xm /\ d.q % 2 = 1) THEN d.q + 1 ELSE d.q

\* 1 / xm for a significand xm (Top <= xm < 2 * Top), as the float32
\* m * 2^e or, for a power of two, Top * 2^(e + 1).
ReciprocalOf(xm, e) ==
    IF xm = Top THEN [m |-> Top, e |-> e + 1]
    ELSE [m |-> RoundedQuotient(LongDivision(0, Top, xm, FLOAT32_BITS), xm),
          e |-> e]

\* 1 / x for x = xm * 2^k units of 2^-26.
ReciprocalAt(x, k) ==
    ReciprocalOf(x \div (2 ^ k), DistanceBits - k - (2 * FLOAT32_BITS - 1))

\* The float32 1 / x for a float32 x >= 1 given in units of 2^-26: the
\* quotient rounded to FLOAT32_BITS bits, to nearest and on a tie to even.
Reciprocal(x) == ReciprocalAt(x, BitLen(x) - FLOAT32_BITS)

\* n > 0 units of 2^-26 as [m, e], k being the bits n has beyond
\* FLOAT32_BITS.
AsFloatAt(n, k) ==
    [m |-> IF k >= 0 THEN n \div (2 ^ k) ELSE n * (2 ^ (0 - k)),
     e |-> k - DistanceBits]

\* The float32 held in n units of 2^-26, as [m, e]; 0 is [0, 0].
AsFloat(n) ==
    IF n = 0 THEN [m |-> 0, e |-> 0]
    ELSE AsFloatAt(n, BitLen(n) - FLOAT32_BITS)

\* ------------------------------------------------------------- the embedder
\* The leading coordinates of SentenceTransformer.encode's vector for one
\* text: a fixed table, the same text always giving the same vector.
embed_row(text) ==
    CASE text = DocShort -> <<0, 0>>
      [] text = DocExact -> <<2 * One, 0>>
      [] text = DocLong -> <<0, 2 * One>>
      [] text = QuestionWhat -> <<3 * One, 0>>
      [] text = QuestionNear -> <<1, 0>>
      [] OTHER -> <<One, One>>

\* self.embedder.encode(texts): one row per text, in input order, each of
\* width d.  For an empty list encode stacks no rows and returns
\* np.asarray([]), whose shape is (0,): a 1-D array.
encode(texts, d) ==
    [shape |-> IF texts = <<>> THEN <<0>> ELSE <<Len(texts), d>>,
     rows |-> [i \in 1..Len(texts) |-> embed_row(texts[i])]]

\* Widths the embedder all-MiniLM-L6-v2 produces.
EmbedderDims == {embedding_dim}
\* Widths of an embedder that breaks its contract.
FaultyDims == {embedding_dim, embedding_dim + 1}

\* --------------------------------------------------------- the FAISS index
\* Squared Euclidean distance of two coordinate rows, each square and the
\* sum being stored in a float32.
L2sqr(a, b) ==
    LET sq(i) == Fl((a[i] - b[i]) * (a[i] - b[i])) IN
    Fl(sq(1) + sq(2))

\* The distance FAISS reports for a neighbour that does not exist
\* (FLT_MAX): larger than every distance between the vectors used here.
FltMax == 2 ^ 30

\* index.add(x): "n, d = x.shape" raises ValueError unless x is 2-D,
\* "assert d == self.d" raises AssertionError on another width; only then
\* are all n rows appended, in order.
index_add(idx, x) ==
    IF Len(x.shape) # 2 THEN [error |-> "ValueError", index |-> idx]
    ELSE IF x.shape[2] # embedding_dim
         THEN [error |-> "AssertionError", index |-> idx]
         ELSE [error |-> "none", index |-> idx \o x.rows]

RECURSIVE distances(_, _, _)
\* The distances of query row q to the first n stored vectors, each computed
\* once, in storage order.
distances(idx, q, n) ==
    IF n = 0 THEN <<>>
    ELSE Append(distances(idx, q, n - 1), L2sqr(q, idx[n]))

\* The k smallest of the distances all (all[m + 1] belonging to identifier
\* m), as FAISS orders and pads them.
ranked(all, k) ==
    LET n == Len(all)
        before(a, b) == all[a + 1] < all[b + 1]
                            \/ (all[a + 1] = all[b + 1] /\ a < b)
        place(m) == Cardinality({a \in 0..(n - 1) : before(a, m)}) + 1
        at(i) == CHOOSE m \in 0..(n - 1) : place(m) = i
    IN [i \in 1..k |-> IF i <= n THEN [id |-> at(i), dis |-> all[at(i) + 1]]
                       ELSE [id |-> -1, dis |-> FltMax]]

\* The k nearest stored vectors of query row q by exact scan: ascending
\* squared L2 distance, equal distances by ascending identifier; padded with
\* identifier -1 at distance FLT_MAX when fewer than k vectors are stored.
nearest(idx, q, k) == ranked(distances(idx, q, Len(idx)), k)

\* index.search(x, k): the same shape checks as add, then "assert k > 0".
index_search(idx, x, k) ==
    IF Len(x.shape) # 2 THEN [error |-> "ValueError", hits |-> <<>>]
    ELSE IF x.shape[2] # embedding_dim \/ k <= 0
         THEN [error |-> "AssertionError", hits |-> <<>>]
         ELSE [error |-> "none", hits |-> nearest(idx, x.rows[1], k)]


\* ------------------------------------------------------------------ EasyRAG
\* documents[idx] as Python indexes a list: a negative idx counts from the
\* end.
py_item(docs, idx) ==
    IF idx < 0 THEN docs[Len(docs) + idx + 1] ELSE docs[idx + 1]

\* A faulty transform: the distance itself is returned as the similarity.
similarity_raw(distance) == AsFloat(distance)

\* similarity = 1 / (1 + distance): distance is a numpy float32, so the sum
\* and the quotient are float32 too.
similarity(distance) == Reciprocal(Fl(OneSquared + distance))

RECURSIVE prepare_results_front(_, _, _)
\* A faulty result loop: results.insert(0, ...) in place of results.append,
\* which returns the hits in reverse.
prepare_results_front(docs, hits, n) ==
    IF n = 0 THEN <<>>
    ELSE LET h == hits[n]
             rest == prepare_results_front(docs, hits, n - 1)
         IN IF h.id < Len(docs)
            THEN <<[text |-> py_item(docs, h.id),
                    similarity |-> similarity(h.dis),
                    rank |-> n]>> \o rest
            ELSE rest

RECURSIVE prepare_results(_, _, _)
\* The result loop of search: hit i (0-based) is kept when its identifier is
\* below len(self.documents), with the stored text, the similarity and
\* rank i + 1.  Defined over the first n hits; search passes n = len(hits).
prepare_results(docs, hits, n) ==
    IF n = 0 THEN <<>>
    ELSE LET h == hits[n]
             rest == prepare_results(docs, hits, n - 1)
         IN IF h.id < Len(docs)
            THEN Append(rest, [text |-> py_item(docs, h.id),
                               similarity |-> similarity(h.dis),
                               rank |-> n])
            ELSE rest

\* A faulty search: top_k is passed to index.search as it is, not
\* min(top_k, len(self.documents)).
search_no_min(docs, idx, query, top_k, d) ==
    IF docs = <<>>
    THEN [results |-> <<>>, error |-> "none", calls |-> <<>>, hits |-> <<>>]
    ELSE LET query_embedding == encode(<<query>>, d)
             found == index_search(idx, query_embedding, top_k)
         IN IF found.error # "none"
            THEN [results |-> <<>>, error |-> found.error,
                  calls |-> <<"encode", "index.search">>, hits |-> <<>>]
            ELSE [results |-> prepare_results(docs, found.hits, Len(found.hits)),
                  error |-> "none",
                  calls |-> <<"encode", "index.search">>, hits |-> found.hits]

\* A faulty search: the "if not self.documents" check is missing.
search_no_guard(docs, idx, query, top_k, d) ==
    LET query_embedding == encode(<<query>>, d)
        found == index_search(idx, query_embedding, Min(top_k, Len(docs)))
    IN IF found.error # "none"
       THEN [results |-> <<>>, error |-> found.error,
             calls |-> <<"encode", "index.search">>, hits |-> <<>>]
       ELSE [results |-> prepare_results(docs, found.hits, Len(found.hits)),
             error |-> "none",
             calls |-> <<"encode", "index.search">>, hits |-> found.hits]

\* EasyRAG.search(query, top_k) on documents docs and index idx, with an
\* embedder of width d.  calls lists the collaborators invoked, in order;
\* error is the exception that propagates, if any.
search(docs, idx, query, top_k, d) ==
    IF docs = <<>>
    THEN [results |-> <<>>, error |-> "none", calls |-> <<>>, hits |-> <<>>]
    ELSE LET query_embedding == encode(<<query>>, d)
             found == index_search(idx, query_embedding, Min(top_k, Len(docs)))
         IN IF found.error # "none"
            THEN [results |-> <<>>, error |-> found.error,
                  calls |-> <<"encode", "index.search">>, hits |-> <<>>]
            ELSE [results |-> prepare_results(docs, found.hits, Len(found.hits)),
                  error |-> "none",
                  calls |-> <<"encode", "index.search">>, hits |-> found.hits]

\* A faulty composition: the rank-3 text is appended as well.
compose_answer_with_third(relevant_docs) ==
    LET second == relevant_docs[2].text
        primary == PrimaryLeadIn \o relevant_docs[1].text
        both == primary \o SecondaryLeadIn
                    \o SubSeq(second, 1, Min(TRUNCATE_AT, Len(second)))
                    \o EllipsisMarker
    IN IF Len(relevant_docs) > 2 THEN both \o relevant_docs[3].text
       ELSE IF Len(relevant_docs) > 1 THEN both
       ELSE primary

\* A faulty composition: the rank-2 text is not cut.
compose_answer_uncut(relevant_docs) ==
    LET primary == PrimaryLeadIn \o relevant_docs[1].text IN
    IF Len(relevant_docs) > 1
    THEN primary \o SecondaryLeadIn \o relevant_docs[2].text \o EllipsisMarker
    ELSE primary

\* Steps 2 and 3 of answer_question for a non-empty result list: the lead-in
\* and the whole rank-1 text, then, when there is a second result, the second
\* lead-in, text[:200] of rank 2 and "...".
compose_answer(relevant_docs) ==
    LET second == relevant_docs[2].text
        primary == PrimaryLeadIn \o relevant_docs[1].text
    IN IF Len(relevant_docs) > 1
       THEN primary \o SecondaryLeadIn
                \o SubSeq(second, 1, Min(TRUNCATE_AT, Len(second)))
                \o EllipsisMarker
       ELSE primary

\* EasyRAG.answer_question(question): search with top_k = 3, the fallback
\* string when nothing is found, the composed answer otherwise.
answer_question(docs, idx, question, d) ==
    LET found == search(docs, idx, question, ANSWER_TOP_K, d) IN
    IF found.error # "none"
    THEN [answer |-> <<>>, found |-> found]
    ELSE IF found.results = <<>>
         THEN [answer |-> FallbackAnswer, found |-> found]
         ELSE [answer |-> compose_answer(found.results), found |-> found]

\* A faulty add_documents: self.documents.append(texts), which stores the
\* whole batch as one element.
add_documents_append(docs, idx, texts, d) ==
    LET embeddings == encode(texts, d)
        added == index_add(idx, embeddings)
    IN IF added.error # "none"
       THEN [documents |-> docs, index |-> idx, error |-> added.error]
       ELSE [documents |-> Append(docs, texts), index |-> added.index,
             error |-> "none"]

\* A faulty add_documents: the new texts are put in front of the list.
add_documents_front(docs, idx, texts, d) ==
    LET embeddings == encode(texts, d)
        added == index_add(idx, embeddings)
    IN IF added.error # "none"
       THEN [documents |-> docs, index |-> idx, error |-> added.error]
       ELSE [documents |-> texts \o docs, index |-> added.index,
             error |-> "none"]

\* A faulty add_documents: the document list is extended before index.add,
\* so an exception of index.add leaves the texts behind.
add_documents_extend_first(docs, idx, texts, d) ==
    LET embeddings == encode(texts, d)
        added == index_add(idx, embeddings)
    IN [documents |-> docs \o texts, index |-> added.index,
        error |-> added.error]

\* EasyRAG.add_documents(texts): encode the batch, add the embeddings to the
\* index, then extend the document list.  An exception of index.add leaves
\* the method before the list is extended.
add_documents(docs, idx, texts, d) ==
    LET embeddings == encode(texts, d)
        added == index_add(idx, embeddings)
    IN IF added.error # "none"
       THEN [documents |-> docs, index |-> idx, error |-> added.error]
       ELSE [documents |-> docs \o texts, index |-> added.index,
             error |-> "none"]

\* ------------------------------------------------------ the Gradio handlers
Whitespace == {" ", "\n", "\t"}

\* s.strip(): s without its leading and trailing whitespace.
strip(s) ==
    LET solid == {i \in 1..Len(s) : s[i] \notin Whitespace} IN
    IF solid = {} THEN <<>>
    ELSE SubSeq(s, CHOOSE i \in solid : \A j \in solid : i <= j,
                   CHOOSE i \in solid : \A j \in solid : j <= i)

RECURSIVE split(_)
\* s.split('\n\n'): the pieces between the occurrences of the separator,
\* found from the left and not overlapping.
split(s) ==
    LET seps == {i \in 1..(Len(s) - 1) : s[i] = "\n" /\ s[i + 1] = "\n"} IN
    IF seps = {} THEN <<s>>
    ELSE LET i == CHOOSE a \in seps : \A b \in seps : a <= b IN
         <<SubSeq(s, 1, i - 1)>> \o split(SubSeq(s, i + 2, Len(s)))

\* [p.strip() for p in text_input.split('\n\n') if p.strip()]
paragraphs_of(text_input) ==
    LET pieces == split(text_input)
        stripped == [i \in 1..Len(pieces) |-> strip(pieces[i])]
    IN SelectSeq(stripped, LAMBDA p : p # <<>>)

ParagraphBreak == <<"\n", "\n">>

\* What is pasted into the "Add New Documents" box.
TextInputs ==
    {<<" ", "\n">>,
     DocShort,
     DocShort \o ParagraphBreak \o DocLong \o <<"\n">>,
     ParagraphBreak \o <<" ">> \o DocExact \o ParagraphBreak \o <<"\n">>}

\* What is typed into the "Ask a Question" box.
ChatQuestions == {QuestionBlank, DocShort, QuestionWhat}

\* -------------------------------------------------------------------- state
VARIABLES
    documents,  \* self.documents
    index,      \* the rows stored in self.index; index.ntotal = Len(index)
    inserted,   \* history: every text of every batch that was inserted
    batchSum,   \* history: the sum of the sizes of the batches inserted
    lastOp,     \* the call that ran last
    lastTexts,  \* its texts argument (add_documents)
    lastQuery,  \* its query or question (search, answer_question)
    lastK,      \* its top_k (search, answer_question)
    lastD,      \* the width of the embedder's vectors during it
    error,      \* the exception it raised, or "none"
    calls,      \* the collaborators search invoked during it
    hits,       \* (distance, identifier) pairs index.search returned in it
    results,    \* the result list it returned
    answer,     \* the answer string it returned
    repeated,   \* history: it repeats the call before it (answer_question)
    pcAdd,      \* where the add_custom_documents handler's thread stands
    addTexts,   \* its paragraphs, the texts of its add_documents call
    addEmb,     \* its embeddings
    addStatus,  \* the status the handler returned last
    pcChat,     \* where the chat_interface handler's thread stands
    chatQuestion, \* its question
    chatEmb,    \* its query_embedding
    chatHits,   \* what its index.search returned
    chatOut,    \* the answer and documents the handler returned last
    seen        \* history: the counts in force when its index.search ran

callVars == <<inserted, batchSum, lastOp, lastTexts, lastQuery, lastK, lastD,
              error, calls, hits, results, answer, repeated>>
addVars == <<pcAdd, addTexts, addEmb, addStatus>>
chatVars == <<pcChat, chatQuestion, chatEmb, chatHits, chatOut, seen>>
vars == <<documents, index, callVars, addVars, chatVars>>

\* rag = EasyRAG(): an empty index and an empty document list.
Init ==
    /\ documents = <<>>
    /\ index = <<>>
    /\ inserted = <<>>
    /\ batchSum = 0
    /\ lastOp = "init"
    /\ lastTexts = <<>>
    /\ lastQuery = <<>>
    /\ lastK = 0
    /\ lastD = embedding_dim
    /\ error = "none"
    /\ calls = <<>>
    /\ hits = <<>>
    /\ results = <<>>
    /\ answer = <<>>
    /\ repeated = FALSE
    /\ pcAdd = "idle"
    /\ addTexts = <<>>
    /\ addEmb = encode(<<>>, embedding_dim)
    /\ addStatus = [msg |-> "", count |-> 0]
    /\ pcChat = "idle"
    /\ chatQuestion = <<>>
    /\ chatEmb = encode(<<>>, embedding_dim)
    /\ chatHits = <<>>
    /\ chatOut = [answer |-> <<>>, docs |-> <<>>]
    /\ seen = [ntotal |-> 0, ndocs |-> 0]

\* rag.add_documents(texts)
AddDocuments(texts, d) ==
    /\ Len(documents) + Len(texts) <= MaxDocs
    /\ LET r == add_documents(documents, index, texts, d) IN
       /\ documents' = r.documents
       /\ index' = r.index
       /\ error' = r.error
       /\ inserted' = IF r.error = "none" THEN inserted \o texts ELSE inserted
       /\ batchSum' = IF r.error = "none" THEN batchSum + Len(texts)
                      ELSE batchSum
    /\ lastOp' = "add"
    /\ lastTexts' = texts
    /\ lastD' = d
    /\ lastQuery' = <<>>
    /\ lastK' = 0
    /\ calls' = <<>>
    /\ hits' = <<>>
    /\ results' = <<>>
    /\ answer' = <<>>
    /\ repeated' = FALSE
    /\ UNCHANGED <<addVars, chatVars>>

\* rag.search(query, top_k)
Search(query, top_k, d) ==
    /\ LET r == search(documents, index, query, top_k, d) IN
       /\ results' = r.results
       /\ error' = r.error
       /\ calls' = r.calls
       /\ hits' = r.hits
    /\ lastOp' = "search"
    /\ lastQuery' = query
    /\ lastK' = top_k
    /\ lastD' = d
    /\ lastTexts' = <<>>
    /\ answer' = <<>>
    /\ repeated' = FALSE
    /\ UNCHANGED <<documents, index, inserted, batchSum, addVars, chatVars>>

\* A faulty answer_question: the question asked is kept in the knowledge base
\* as a further document.
AnswerQuestionKeeping(question, d) ==
    /\ Len(documents) < MaxDocs
    /\ LET r == answer_question(documents, index, question, d) IN
       /\ answer' = r.answer
       /\ results' = r.found.results
       /\ error' = r.found.error
       /\ calls' = r.found.calls
       /\ hits' = r.found.hits
    /\ lastOp' = "answer"
    /\ lastQuery' = question
    /\ lastK' = ANSWER_TOP_K
    /\ lastD' = d
    /\ lastTexts' = <<>>
    /\ repeated' = (lastOp = "answer" /\ lastQuery = question /\ lastD = d)
    /\ documents' = Append(documents, question)
    /\ index' = Append(index, embed_row(question))
    /\ UNCHANGED <<inserted, batchSum, addVars, chatVars>>

\* rag.answer_question(question)
AnswerQuestion(question, d) ==
    /\ LET r == answer_question(documents, index, question, d) IN
       /\ answer' = r.answer
       /\ results' = r.found.results
       /\ error' = r.found.error
       /\ calls' = r.found.calls
       /\ hits' = r.found.hits
    /\ lastOp' = "answer"
    /\ lastQuery' = question
    /\ lastK' = ANSWER_TOP_K
    /\ lastD' = d
    /\ lastTexts' = <<>>
    /\ repeated' = (lastOp = "answer" /\ lastQuery = question /\ lastD = d)
    /\ UNCHANGED <<documents, index, inserted, batchSum, addVars, chatVars>>

\* Calls made one after another, with the embedder the notebook loads.
Next ==
    \/ \E texts \in Batches, d \in EmbedderDims : AddDocuments(texts, d)
    \/ \E query \in Questions, top_k \in 0..MaxK, d \in EmbedderDims :
           Search(query, top_k, d)
    \/ \E question \in Questions, d \in EmbedderDims :
           AnswerQuestion(question, d)

Spec == Init /\ [][Next]_vars

\* The same calls with an embedder whose vectors may have another width than
\* the index was built for.
NextFaulty ==
    \/ \E texts \in Batches, d \in FaultyDims : AddDocuments(texts, d)
    \/ \E query \in Questions, top_k \in 0..MaxK, d \in FaultyDims :
           Search(query, top_k, d)
    \/ \E question \in Questions, d \in FaultyDims :
           AnswerQuestion(question, d)

SpecFaulty == Init /\ [][NextFaulty]_vars

\* ------------------------------------------- the handlers, run concurrently
\* demo and add_docs_demo are two Gradio apps; each runs its handler on a
\* worker thread, and nothing in the notebook locks rag.  One step below is
\* one statement of the handler's call into rag.

\* add_custom_documents(text_input) up to the call of rag.add_documents.
AddCustomStart(text_input) ==
    /\ pcAdd = "idle"
    /\ LET paragraphs == paragraphs_of(text_input) IN
       /\ Len(index) + Len(paragraphs) <= MaxDocs
       /\ IF strip(text_input) = <<>>
          THEN /\ addStatus' = [msg |-> "Please provide some text to add.",
                                count |-> 0]
               /\ UNCHANGED <<pcAdd, addTexts>>
          ELSE IF paragraphs # <<>>
               THEN /\ pcAdd' = "encode"
                    /\ addTexts' = paragraphs
                    /\ UNCHANGED addStatus
               ELSE /\ addStatus' =
                           [msg |-> "No valid paragraphs found in the input.",
                            count |-> 0]
                    /\ UNCHANGED <<pcAdd, addTexts>>
    /\ UNCHANGED <<documents, index, callVars, addEmb, chatVars>>

\* embeddings = self.embedder.encode(texts, show_progress_bar=True)
AddEncode ==
    /\ pcAdd = "encode"
    /\ addEmb' = encode(addTexts, embedding_dim)
    /\ pcAdd' = "index_add"
    /\ UNCHANGED <<documents, index, callVars, addTexts, addStatus, chatVars>>

\* self.index.add(embeddings.astype('float32'))
AddIndexAdd ==
    /\ pcAdd = "index_add"
    /\ LET added == index_add(index, addEmb) IN
       /\ index' = added.index
       /\ IF added.error = "none"
          THEN pcAdd' = "extend" /\ UNCHANGED addStatus
          ELSE pcAdd' = "idle" /\ addStatus' = [msg |-> added.error, count |-> 0]
    /\ UNCHANGED <<documents, callVars, addTexts, addEmb, chatVars>>

\* self.documents.extend(texts), and the handler's return.
AddExtend ==
    /\ pcAdd = "extend"
    /\ documents' = documents \o addTexts
    /\ pcAdd' = "idle"
    /\ addStatus' = [msg |-> "Added new document(s) to the knowledge base!",
                     count |-> Len(addTexts)]
    /\ UNCHANGED <<index, callVars, addTexts, addEmb, chatVars>>

\* chat_interface(question) up to the call of rag.answer_question.
ChatStart(question) ==
    /\ pcChat = "idle"
    /\ IF strip(question) = <<>>
       THEN /\ chatOut' = [answer |-> EnterQuestionMsg, docs |-> <<>>]
            /\ UNCHANGED <<pcChat, chatQuestion>>
       ELSE /\ pcChat' = "check"
            /\ chatQuestion' = question
            /\ UNCHANGED chatOut
    /\ UNCHANGED <<documents, index, callVars, addVars, chatEmb, chatHits, seen>>

\* search: "if not self.documents: return []", and then answer_question's
\* fallback.
ChatCheck ==
    /\ pcChat = "check"
    /\ IF documents = <<>>
       THEN /\ chatOut' = [answer |-> FallbackAnswer, docs |-> <<>>]
            /\ pcChat' = "idle"
       ELSE /\ pcChat' = "encode"
            /\ UNCHANGED chatOut
    /\ UNCHANGED <<documents, index, callVars, addVars, chatQuestion, chatEmb,
                   chatHits, seen>>

\* query_embedding = self.embedder.encode([query])
ChatEncode ==
    /\ pcChat = "encode"
    /\ chatEmb' = encode(<<chatQuestion>>, embedding_dim)
    /\ pcChat' = "index_search"
    /\ UNCHANGED <<documents, index, callVars, addVars, chatQuestion, chatHits,
                   chatOut, seen>>

\* self.index.search(query_embedding, min(top_k, len(self.documents)))
ChatIndexSearch ==
    /\ pcChat = "index_search"
    /\ LET found == index_search(index, chatEmb,
                                 Min(ANSWER_TOP_K, Len(documents))) IN
       /\ chatHits' = found.hits
       /\ IF found.error = "none"
          THEN pcChat' = "collect" /\ UNCHANGED chatOut
          ELSE pcChat' = "idle" /\ chatOut' = [answer |-> <<>>, docs |-> <<>>]
    /\ seen' = [ntotal |-> Len(index), ndocs |-> Len(documents)]
    /\ UNCHANGED <<documents, index, callVars, addVars, chatQuestion, chatEmb>>

\* The result loop of search, then answer_question's composition and the
\* handler's return (the display string it builds from docs is not kept).
ChatCollect ==
    /\ pcChat = "collect"
    /\ LET relevant_docs == prepare_results(documents, chatHits, Len(chatHits)) IN
       chatOut' = [answer |-> IF relevant_docs = <<>> THEN FallbackAnswer
                              ELSE compose_answer(relevant_docs),
                   docs |-> relevant_docs]
    /\ pcChat' = "idle"
    /\ UNCHANGED <<documents, index, callVars, addVars, chatQuestion, chatEmb,
                   chatHits, seen>>

NextHandlers ==
    \/ \E text_input \in TextInputs : AddCustomStart(text_input)
    \/ AddEncode
    \/ AddIndexAdd
    \/ AddExtend
    \/ \E question \in ChatQuestions : ChatStart(question)
    \/ ChatCheck
    \/ ChatEncode
    \/ ChatIndexSearch
    \/ ChatCollect

SpecHandlers == Init /\ [][NextHandlers]_vars

\* ------------------------------------------------------------------ claims
IsQuery == lastOp \in {"search", "answer"}

\* The distance index.search reported for result i.
ResultDistance(i) == hits[i].dis

\* The distance of the stored document with identifier m to the last query.
StoredDistance(m) == L2sqr(embed_row(lastQuery), embed_row(documents[m + 1]))

\* The part of the last answer after the lead-in and the rank-1 text.
SecondarySection ==
    SubSeq(answer, Len(PrimaryLeadIn) + Len(results[1].text) + 1, Len(answer))

\* The secondary section without its lead-in and its final ellipsis.
SecondaryBody ==
    SubSeq(SecondarySection, Len(SecondaryLeadIn) + 1,
           Len(SecondarySection) - Len(EllipsisMarker))

\* C1: in every state reached by add_documents calls from a fresh EasyRAG,
\* the number of documents is the sum of the sizes of the batches inserted
\* and the index holds as many vectors as there are documents.
C1_InsertionCount ==
    /\ Len(documents) = batchSum
    /\ Len(index) = Len(documents)

\* A second batch, of more than one text, has been inserted.
C1_Witness ==
    /\ lastOp = "add"
    /\ error = "none"
    /\ Len(lastTexts) > 1
    /\ Len(documents) > Len(lastTexts)

\* C2: the document at position i is the i-th text ever inserted, the vector
\* at position i is the embedding of that document, and no call changes,
\* removes or moves a document or vector once it is stored.
C2_AppendOnly ==
    /\ [](/\ documents = inserted
          /\ Len(index) = Len(documents)
          /\ \A i \in 1..Len(documents) : index[i] = embed_row(documents[i]))
    /\ [][/\ Len(documents') >= Len(documents)
          /\ Len(index') >= Len(index)
          /\ \A i \in 1..Len(documents) : documents'[i] = documents[i]
          /\ \A i \in 1..Len(index) : index'[i] = index[i]]_vars

\* A question was answered over three documents inserted by several calls.
C2_Witness ==
    /\ lastOp = "answer"
    /\ Len(documents) = 3
    /\ documents[1] # documents[3]
    /\ documents[2] # documents[3]

\* C3 as stated: for every k >= 0, search returns min(k, document count)
\* results.
C3_Original ==
    lastOp = "search" =>
        /\ error = "none"
        /\ Len(results) = Min(lastK, Len(documents))

\* C3: for every k >= 1, and for every k >= 0 when there are no documents,
\* search returns min(k, document count) results.
C3_SearchCardinality ==
    (lastOp = "search" /\ (lastK >= 1 \/ documents = <<>>)) =>
        /\ error = "none"
        /\ Len(results) = Min(lastK, Len(documents))

\* A search asked for more results than there are documents.
C3_Witness ==
    /\ lastOp = "search"
    /\ Len(documents) >= 2
    /\ lastK > Len(documents)
    /\ Len(results) = Len(documents)

\* C4: on an empty knowledge base search returns the empty list and
\* answer_question the fallback string with the empty list, and neither
\* encode nor index.search is invoked.
C4_EmptyShortCircuit ==
    (IsQuery /\ documents = <<>>) =>
        /\ error = "none"
        /\ results = <<>>
        /\ calls = <<>>
        /\ lastOp = "answer" => answer = FallbackAnswer

\* A question was answered on the empty knowledge base.
C4_Witness ==
    /\ lastOp = "answer"
    /\ documents = <<>>
    /\ answer = FallbackAnswer

\* C5: the results of a search are in ascending order of distance to the
\* query, result i being the i-th nearest stored document with rank i, and
\* of two stored documents at the same distance the one with the smaller
\* identifier comes first (and is the one returned when only one fits).
C5_DistanceOrder ==
    (IsQuery /\ error = "none" /\ results # <<>>) =>
        LET n == Len(results)
            ids == {hits[i].id : i \in 1..n}
        IN /\ Len(hits) = n
           /\ \A i \in 1..n :
                 /\ hits[i].id \in 0..(Len(documents) - 1)
                 /\ results[i].text = documents[hits[i].id + 1]
                 /\ results[i].rank = i
                 /\ ResultDistance(i) = StoredDistance(hits[i].id)
           /\ \A i, j \in 1..n :
                 i < j => /\ ResultDistance(i) <= ResultDistance(j)
                          /\ ResultDistance(i) = ResultDistance(j)
                                 => hits[i].id < hits[j].id
           /\ \A m \in (0..(Len(documents) - 1)) \ ids : \A i \in 1..n :
                 \/ StoredDistance(m) > ResultDistance(i)
                 \/ /\ StoredDistance(m) = ResultDistance(i)
                    /\ m > hits[i].id

\* Two different documents at the same distance were returned, after a
\* nearer one.
C5_Witness ==
    /\ lastOp = "search"
    /\ Len(results) = 3
    /\ ResultDistance(1) < ResultDistance(2)
    /\ ResultDistance(2) = ResultDistance(3)
    /\ results[2].text # results[3].text

\* C6: on a non-empty knowledge base answer_question returns the results of
\* search with top_k = 3, and its answer is the lead-in and the whole rank-1
\* text, followed by a secondary section exactly when there is a rank-2
\* result; the section is made of the rank-2 text alone, so nothing of
\* rank 3 enters the answer.
C6_AnswerComposition ==
    (lastOp = "answer" /\ error = "none" /\ documents # <<>>) =>
        LET primary == PrimaryLeadIn \o results[1].text IN
        /\ lastK = ANSWER_TOP_K
        /\ Len(results) = Min(ANSWER_TOP_K, Len(documents))
        /\ SubSeq(answer, 1, Len(primary)) = primary
        /\ (Len(answer) > Len(primary)) <=> (Len(results) >= 2)
        /\ Len(results) >= 2 =>
               /\ SubSeq(SecondarySection, 1, Len(SecondaryLeadIn))
                      = SecondaryLeadIn
               /\ Len(SecondaryBody) <= Len(results[2].text)
               /\ SecondaryBody = SubSeq(results[2].text, 1, Len(SecondaryBody))
               /\ SecondarySection
                      = SecondaryLeadIn \o SecondaryBody \o EllipsisMarker

\* A question was answered from three results.
C6_Witness ==
    /\ lastOp = "answer"
    /\ error = "none"
    /\ Len(results) = 3
    /\ results[3].text # results[2].text
    /\ results[3].text # results[1].text

\* A question was answered from the only document.
C6_WitnessSingle ==
    /\ lastOp = "answer"
    /\ Len(results) = 1
    /\ answer = PrimaryLeadIn \o documents[1]

\* C7 as stated: the secondary section is its lead-in, the first 200
\* characters of the rank-2 text and the ellipsis, and never holds the whole
\* rank-2 text.
C7_Original ==
    (lastOp = "answer" /\ error = "none" /\ Len(results) >= 2) =>
        LET second == results[2].text IN
        /\ SecondarySection
               = SecondaryLeadIn
                     \o SubSeq(second, 1, Min(TRUNCATE_AT, Len(second)))
                     \o EllipsisMarker
        /\ SecondaryBody # second

\* C7: the secondary section is its lead-in, the first 200 characters of the
\* rank-2 text (all of it when it has no more than 200) and the ellipsis; it
\* holds the whole rank-2 text exactly when that text has at most 200
\* characters.
C7_SecondaryTruncation ==
    (lastOp = "answer" /\ error = "none" /\ Len(results) >= 2) =>
        LET second == results[2].text IN
        /\ SecondarySection
               = SecondaryLeadIn
                     \o SubSeq(second, 1, Min(TRUNCATE_AT, Len(second)))
                     \o EllipsisMarker
        /\ Len(SecondaryBody) <= TRUNCATE_AT
        /\ (SecondaryBody = second) <=> (Len(second) <= TRUNCATE_AT)

\* The rank-2 text was longer than 200 characters and was cut.
C7_Witness ==
    /\ lastOp = "answer"
    /\ Len(results) >= 2
    /\ Len(results[2].text) > TRUNCATE_AT
    /\ Len(SecondaryBody) = TRUNCATE_AT

\* C8: an add_documents call whose vectors have another width than the index
\* fails with the index's assertion error and leaves the document list and
\* the index as they were.
C8_DimensionMismatchAtomic ==
    [][(lastOp' = "add" /\ lastTexts' # <<>> /\ lastD' # embedding_dim) =>
           /\ error' = "AssertionError"
           /\ documents' = documents
           /\ index' = index]_vars

\* Such a call failed on a knowledge base that already held documents.
C8_Witness ==
    /\ lastOp = "add"
    /\ lastTexts # <<>>
    /\ lastD # embedding_dim
    /\ error = "AssertionError"
    /\ documents # <<>>

\* C9 as stated: add_documents with an empty list raises no error and
\* changes neither the number of documents nor the number of vectors.
C9_EmptyBatchNoOp ==
    [][(lastOp' = "add" /\ lastTexts' = <<>>) =>
           /\ error' = "none"
           /\ Len(documents') = Len(documents)
           /\ Len(index') = Len(index)]_vars

\* C10 as stated: handler calls do not overlap, so the index.search of a
\* search never runs between the index.add and the documents.extend of an
\* insert, and never sees a vector count that differs from the text count.
C10_NoTornSearch ==
    /\ ~(pcAdd = "extend" /\ pcChat = "index_search")
    /\ seen.ntotal = seen.ndocs

FloatOne == [m |-> Top, e |-> 1 - FLOAT32_BITS]

\* a <= b and a < b for two positive floats [m, e] with 2^23 <= m < 2^24.
FloatLeq(a, b) == a.e < b.e \/ (a.e = b.e /\ a.m <= b.m)
FloatLess(a, b) == a.e < b.e \/ (a.e = b.e /\ a.m < b.m)

\* s lies in (0, 1].
InUnitInterval(s) ==
    /\ s.m >= FloatOne.m
    /\ s.m < 2 * FloatOne.m
    /\ FloatLeq(s, FloatOne)

\* mh * xh <= 2^p <= (mh + 1) * (xh + 1) for the leading halves mh and xh
\* of two significands.
HalvesNearOne(mh, xh, p) ==
    /\ p \in 0..(FLOAT32_BITS - 1)
    /\ mh * xh <= 2 ^ p
    /\ 2 ^ p <= (mh + 1) * (xh + 1)

\* The same for the float s and x = xm * 2^k units of 2^-26.
ProductNearOne(s, x, k) ==
    HalvesNearOne(s.m \div (2 ^ (FLOAT32_BITS \div 2)),
                  (x \div (2 ^ k)) \div (2 ^ (FLOAT32_BITS \div 2)),
                  DistanceBits - k - s.e - FLOAT32_BITS)

\* The float32 1 + d, d in units of 2^-26.
OnePlus(d) == Fl(OneSquared + d)

\* s * (1 + d) = 1 to within the 12 leading bits of either factor, 1 + d
\* being the float32 sum.
NearReciprocal(s, d) ==
    ProductNearOne(s, OnePlus(d), BitLen(OnePlus(d)) - FLOAT32_BITS)

\* C12 as stated: every result's similarity is 1 / (1 + d) for its distance
\* d >= 0, lies in (0, 1], is 1 only when d = 0, and is strictly smaller for
\* a strictly larger distance.
C12_Original ==
    (IsQuery /\ error = "none") =>
        \A i \in 1..Len(results) :
            LET s == results[i].similarity
                d == ResultDistance(i)
            IN /\ d >= 0
               /\ InUnitInterval(s)
               /\ NearReciprocal(s, d)
               /\ (s = FloatOne) <=> (d = 0)
               /\ \A j \in 1..Len(results) :
                      /\ ResultDistance(j) > d
                             => FloatLess(results[j].similarity, s)
                      /\ j > i => FloatLeq(results[j].similarity, s)

\* C12: every result's similarity is the float32 value of 1 / (1 + d) for its
\* distance d >= 0: it lies in (0, 1], is 1 when d = 0, is never larger for
\* a larger distance, and so does not increase with the rank.
C12_SimilarityTransform ==
    (IsQuery /\ error = "none") =>
        \A i \in 1..Len(results) :
            LET s == results[i].similarity
                d == ResultDistance(i)
            IN /\ d >= 0
               /\ InUnitInterval(s)
               /\ NearReciprocal(s, d)
               /\ d = 0 => s = FloatOne
               /\ \A j \in 1..Len(results) :
                      /\ ResultDistance(j) > d
                             => FloatLeq(results[j].similarity, s)
                      /\ j > i => FloatLeq(results[j].similarity, s)

\* An exact match with similarity 1 was returned before two documents that
\* are farther away and less similar.
C12_Witness ==
    /\ lastOp = "search"
    /\ Len(results) = 3
    /\ ResultDistance(1) = 0
    /\ results[1].similarity = FloatOne
    /\ ResultDistance(2) > 0
    /\ FloatLess(results[2].similarity, FloatOne)
    /\ FloatLeq(results[3].similarity, results[2].similarity)

=============================================================================
